---- MODULE Spec2Model ----
(***************************************************************************)
(* MacroNerd backend (server.js): an Express server that proxies food     *)
(* queries and food images to the Gemini API with a retry loop.           *)
(*                                                                         *)
(* JavaScript values are tagged records [t |-> type, v |-> value]; an     *)
(* exception is the result [k |-> "throw"].  One action is one turn of    *)
(* the event loop: the code a handler runs between two awaits.  The        *)
(* upstream answer arrives whole (status and body together); a transport  *)
(* failure is the rejected fetch promise.                                  *)
(***************************************************************************)
EXTENDS Integers, Sequences, FiniteSets, TLC

(* ---------------------------------------------------------------------- *)
(* Bounds                                                                  *)
(* ---------------------------------------------------------------------- *)
\* decimal strings "-MaxNum" .. "MaxNum" are the numeric strings Number() sees
MaxNum == 15
\* number of requests the server receives in one behaviour
MaxRequests == 2

(* ---------------------------------------------------------------------- *)
(* JavaScript values                                                       *)
(* ---------------------------------------------------------------------- *)
Undef == [t |-> "undefined"]
Null == [t |-> "null"]
NaN == [t |-> "NaN"]
Num(n) == [t |-> "number", v |-> n]
Str(s) == [t |-> "string", v |-> s]
Bool(b) == [t |-> "boolean", v |-> b]
Arr(s) == [t |-> "array", v |-> s]
Obj(f) == [t |-> "object", v |-> f]
\* a string whose characters are the JSON serialisation of the value x
JsonText(x) == [t |-> "jsontext", v |-> x]
EmptyObj == Obj(<<>>)

Throw == [k |-> "throw"]
Ok(x) == [k |-> "ok", v |-> x]

\* typeof x === 'number'
IsNumber(x) == x.t \in {"number", "NaN"}
\* typeof x === 'string'
IsString(x) == x.t \in {"string", "jsontext"}

\* ToBoolean
Truthy(x) ==
    CASE x.t \in {"undefined", "null", "NaN"} -> FALSE
      [] x.t = "number" -> x.v # 0
      [] x.t = "string" -> x.v # ""
      [] x.t = "boolean" -> x.v
      [] OTHER -> TRUE

\* x.name throws a TypeError on null and undefined
Nullish(x) == x.t \in {"undefined", "null"}

\* x[name] for a non-nullish x
GetProp(x, name) ==
    IF x.t = "object" /\ name \in DOMAIN x.v THEN x.v[name] ELSE Undef

\* x.length for a non-nullish x
GetLength(x) ==
    CASE x.t = "array" -> Num(Len(x.v))
      [] x.t = "string" -> Num(Len(x.v))
      [] x.t = "jsontext" -> Num(1)
      [] OTHER -> GetProp(x, "length")

\* x[0] for a non-nullish x with x.length > 0
First(x) ==
    CASE x.t = "array" -> x.v[1]
      [] x.t \in {"string", "jsontext"} -> Str("c")
      [] OTHER -> GetProp(x, "0")

\* a > 0 (the relational comparison is false on undefined and NaN)
GreaterThanZero(x) == x.t = "number" /\ x.v > 0

\* StringToNumber on the strings of the model: the decimal rendering of an
\* integer converts to that integer, the empty string to 0, anything else NaN
StringToNumber(s) ==
    IF s = "" THEN Num(0)
    ELSE IF \E n \in -MaxNum..MaxNum : ToString(n) = s
         THEN Num(CHOOSE n \in -MaxNum..MaxNum : ToString(n) = s)
         ELSE NaN

\* Number(x)
ToNumber(x) ==
    CASE x.t \in {"number", "NaN"} -> x
      [] x.t = "undefined" -> NaN
      [] x.t = "null" -> Num(0)
      [] x.t = "boolean" -> IF x.v THEN Num(1) ELSE Num(0)
      [] x.t = "string" -> StringToNumber(x.v)
      [] x.t = "jsontext" -> NaN
      [] x.t = "array" -> IF x.v = <<>> THEN Num(0) ELSE NaN
      [] OTHER -> NaN

\* JSON.parse(x): the argument is converted to a string first
JSONparse(x) ==
    CASE x.t = "jsontext" -> Ok(x.v)
      [] x.t = "string" ->
            IF x.v # "" /\ StringToNumber(x.v) # NaN
            THEN Ok(StringToNumber(x.v)) ELSE Throw
      [] x.t \in {"number", "null", "boolean"} -> Ok(x)
      [] OTHER -> Throw


\* JSON.stringify(x) as the text the receiver parses: properties holding
\* undefined are dropped, NaN and undefined array elements become null
RECURSIVE Jsonable(_)
Jsonable(x) ==
    CASE x.t = "object" ->
            Obj([n \in {m \in DOMAIN x.v : x.v[m].t # "undefined"} |-> Jsonable(x.v[n])])
      [] x.t = "array" ->
            Arr([j \in 1..Len(x.v) |->
                    IF x.v[j].t = "undefined" THEN Null ELSE Jsonable(x.v[j])])
      [] x.t = "NaN" -> Null
      [] OTHER -> x
JSONstringify(x) == JsonText(Jsonable(x))

\* x[name] = val in sloppy mode (the file has no 'use strict'): a TypeError on
\* null and undefined, silently ignored on a primitive; a named property of an
\* array is set but is no element, so no later step of the handlers sees it
SetProp(x, name, val) ==
    CASE Nullish(x) -> Throw
      [] x.t = "object" ->
            Ok(Obj([n \in DOMAIN x.v \cup {name} |-> IF n = name THEN val ELSE x.v[n]]))
      [] OTHER -> Ok(x)

(* ---------------------------------------------------------------------- *)
(* HTTP                                                                    *)
(* ---------------------------------------------------------------------- *)
\* res.status(status).json(value)
Reply(status, value) == [status |-> status, body |-> JSONstringify(value)]
ErrorReply(status, message) == Reply(status, Obj([error |-> Str(message)]))

\* the settled fetch promise: rejected, or fulfilled with a Response
Rejected == [k |-> "rejected"]
Response(status, body) == [k |-> "response", status |-> status, body |-> body]
\* response.ok
ResponseOk(status) == status >= 200 /\ status <= 299

(* ---------------------------------------------------------------------- *)
(* The two handlers, between two awaits                                    *)
(* ---------------------------------------------------------------------- *)
Endpoints == {"get-macros", "analyze-image"}

\* what a synchronous stretch of a handler ends in: a response sent with
\* return, the retry loop entered, or an exception (Throw)
Replied(reply) == [k |-> "reply", reply |-> reply]
Proceed == [k |-> "proceed"]

\* let delay = 1000
InitialDelay == 1000
\* mutant: the image handler copies the text handler's budget
MaxRetriesCopied(e) == 5
\* const maxRetries
MaxRetries(e) == IF e = "get-macros" THEN 5 ELSE 3

\* query?.substring(0, 50) + '...': a TypeError when query is neither
\* nullish nor a string
OptionalSubstring(query) ==
    IF Nullish(query) \/ IsString(query) THEN Ok(Undef) ELSE Throw

\* mutant: the credential is tested before the query
GetMacrosValidateKeyFirst(reqBody, key) ==
    LET query == GetProp(reqBody, "query")
    IN  IF OptionalSubstring(query).k = "throw" THEN Throw
        ELSE IF ~Truthy(key) THEN Replied(ErrorReply(500, "API key not configured"))
        ELSE IF ~Truthy(query) THEN Replied(ErrorReply(400, "Query is required"))
        ELSE Proceed
\* /api/get-macros up to the retry loop
GetMacrosValidate(reqBody, key) ==
    LET query == GetProp(reqBody, "query")
    IN  IF OptionalSubstring(query).k = "throw" THEN Throw
        ELSE IF ~Truthy(query) THEN Replied(ErrorReply(400, "Query is required"))
        ELSE IF ~Truthy(key) THEN Replied(ErrorReply(500, "API key not configured"))
        ELSE Proceed

\* /api/analyze-image up to the retry loop (image?.length || 0 never throws)
AnalyzeImageValidate(reqBody, key) ==
    LET image == GetProp(reqBody, "image")
    IN  IF ~Truthy(image) THEN Replied(ErrorReply(400, "Image is required"))
        ELSE IF ~Truthy(key) THEN Replied(ErrorReply(500, "API key not configured"))
        ELSE Proceed

\* mutant: the outer catch logs and rethrows
OuterCatchRethrow == Throw
\* catch (error) of the outer try
OuterCatch == Replied(ErrorReply(500, "Internal server error"))

\* mutant: every status from 400 up is retried
NotOkBranchRetry4xx(status) ==
    IF status >= 400 THEN Throw
    ELSE Replied(ErrorReply(status, "API request failed: " \o ToString(status)))
\* the body of if (!response.ok) { ... }
NotOkBranch(status) ==
    IF status >= 500 \/ status = 429 THEN Throw
    ELSE Replied(ErrorReply(status, "API request failed: " \o ToString(status)))

\* result.candidates && result.candidates.length > 0 &&
\* result.candidates[0].content && result.candidates[0].content.parts &&
\* result.candidates[0].content.parts.length > 0
\* "throw" is the TypeError of a property read on null
ExpectedShape(result) ==
    IF Nullish(result) THEN "throw"
    ELSE LET candidates == GetProp(result, "candidates")
         IN  IF ~Truthy(candidates) THEN "invalid"
             ELSE IF ~GreaterThanZero(GetLength(candidates)) THEN "invalid"
             ELSE IF Nullish(First(candidates)) THEN "throw"
             ELSE LET content == GetProp(First(candidates), "content")
                  IN  IF ~Truthy(content) THEN "invalid"
                      ELSE IF ~Truthy(GetProp(content, "parts")) THEN "invalid"
                      ELSE IF ~GreaterThanZero(GetLength(GetProp(content, "parts")))
                           THEN "invalid"
                           ELSE "valid"

\* JSON.parse(result.candidates[0].content.parts[0].text), result of the
\* expected shape
ParseInnerText(result) ==
    LET part == First(GetProp(GetProp(First(GetProp(result, "candidates")),
                                      "content"), "parts"))
    IN  IF Nullish(part) THEN Throw ELSE JSONparse(GetProp(part, "text"))

\* Number(x) || 0
NumberOrZero(x) == IF Truthy(ToNumber(x)) THEN ToNumber(x) ELSE Num(0)

\* mutant: macros.carbs = Number(macros.protein) || 0 (a line copied and not
\* fully edited)
CoerceMacrosCopied(macros) ==
    LET m1 == SetProp(macros, "calories", NumberOrZero(GetProp(macros, "calories"))).v
        m2 == SetProp(m1, "protein", NumberOrZero(GetProp(m1, "protein"))).v
        m3 == SetProp(m2, "carbs", NumberOrZero(GetProp(m2, "protein"))).v
    IN  SetProp(m3, "fat", NumberOrZero(GetProp(m3, "fat"))).v
\* macros.calories = Number(macros.calories) || 0; ... protein, carbs, fat
\* (macros is not nullish)
CoerceMacros(macros) ==
    LET m1 == SetProp(macros, "calories", NumberOrZero(GetProp(macros, "calories"))).v
        m2 == SetProp(m1, "protein", NumberOrZero(GetProp(m1, "protein"))).v
        m3 == SetProp(m2, "carbs", NumberOrZero(GetProp(m2, "carbs"))).v
    IN  SetProp(m3, "fat", NumberOrZero(GetProp(m3, "fat"))).v

\* the then-branch of the shape test in /api/get-macros
GetMacrosSuccess(result) ==
    LET parsed == ParseInnerText(result)
    IN  IF parsed.k = "throw" THEN Throw
        ELSE IF Nullish(parsed.v) THEN Throw
        ELSE Replied(Reply(200, CoerceMacros(parsed.v)))

\* the then-branch of the shape test in /api/analyze-image; analysis.foodName
\* is read for the log line
AnalyzeImageSuccess(result) ==
    LET parsed == ParseInnerText(result)
    IN  IF parsed.k = "throw" THEN Throw
        ELSE IF Nullish(parsed.v) THEN Throw
        ELSE Replied(Reply(200, parsed.v))

InvalidResponse == Replied(ErrorReply(500, "AI returned an invalid response"))

\* the try block of one iteration, from the settled fetch on
AfterResponse(e, result) ==
    CASE ExpectedShape(result) = "throw" -> Throw
      [] ExpectedShape(result) = "invalid" -> InvalidResponse
      [] OTHER -> IF e = "get-macros" THEN GetMacrosSuccess(result)
                  ELSE AnalyzeImageSuccess(result)

\* mutant: the fetch sits outside the inner try, so a rejection reaches the
\* outer catch
TryBlockFetchOutside(e, settled) ==
    IF settled.k = "rejected" THEN OuterCatch
    ELSE IF ~ResponseOk(settled.status) THEN NotOkBranch(settled.status)
    ELSE IF JSONparse(settled.body).k = "throw" THEN Throw
    ELSE AfterResponse(e, JSONparse(settled.body).v)
TryBlock(e, settled) ==
    IF settled.k = "rejected" THEN Throw
    ELSE IF ~ResponseOk(settled.status) THEN NotOkBranch(settled.status)
    ELSE IF JSONparse(settled.body).k = "throw" THEN Throw
    ELSE AfterResponse(e, JSONparse(settled.body).v)

\* the message of the reply in catch (error) when i === maxRetries - 1
ExhaustedMessage(e) ==
    IF e = "get-macros" THEN "Failed to get macro data from AI"
    ELSE "Failed to analyze image"

\* mutant: if (i === maxRetries)
LastAttemptOffByOne(e, n) == n = MaxRetries(e)
\* if (i === maxRetries - 1)
LastAttempt(e, n) == n = MaxRetries(e) - 1

\* mutant: delay = Math.min(delay * 2, 4000) (capped backoff)
NextDelayCapped(d) == IF d * 2 > 4000 THEN 4000 ELSE d * 2
\* mutant: delay += 1000 (linear backoff)
NextDelayLinear(d) == d + 1000
\* delay *= 2
NextDelay(d) == d * 2

(* ---------------------------------------------------------------------- *)
(* Inputs: request bodies, environment, upstream answers                   *)
(* ---------------------------------------------------------------------- *)
\* process.env.GEMINI_API_KEY: unset, set to the empty string, or a key
Keys == {Undef, Str(""), Str("key-A"), Str("key-B")}

InputField(e) == IF e = "get-macros" THEN "query" ELSE "image"
ValidInput(e) ==
    IF e = "get-macros" THEN Str("2 large eggs and 100g rice") ELSE Str("aGVsbG8=")
\* req.body after express.json(): the field absent, empty, valid, or no string
RequestBodies(e) ==
    {EmptyObj} \cup
    {Obj([n \in {InputField(e)} |-> x]) : x \in {Null, Str(""), ValidInput(e), Num(7)}}

With(o, name, x) == Obj([n \in DOMAIN o.v \cup {name} |-> IF n = name THEN x ELSE o.v[n]])
Without(o, name) == Obj([n \in DOMAIN o.v \ {name} |-> o.v[n]])

GoodMacros ==
    Obj([name |-> Str("2 eggs and rice"), calories |-> Num(300), protein |-> Num(12),
         carbs |-> Num(45), fat |-> Num(8)])
GoodAnalysis == Obj([foodName |-> Str("apple"), suggestedQuantity |-> Str("1 medium")])
MacroFields == {"calories", "protein", "carbs", "fat"}
\* what the inner JSON may hold in a numeric field
FieldValues == {Null, Str("abc"), Str("12"), Num(-5), Num(0), Bool(TRUE)}
\* the values the inner JSON text may encode
InnerValues ==
    {GoodMacros, GoodAnalysis, EmptyObj, Null, Num(5), Str("apple"), Arr(<<Num(1)>>),
     Obj([foodName |-> Num(3)])}
    \cup {With(GoodMacros, f, x) : f \in MacroFields, x \in FieldValues}
    \cup {Without(GoodMacros, f) : f \in MacroFields}

\* an envelope of the expected shape around one content part
Envelope(part) ==
    Obj([candidates |-> Arr(<<Obj([content |-> Obj([parts |-> Arr(<<part>>)])])>>)])
Parts ==
    {Null, EmptyObj, Obj([text |-> Str("not json")])}
    \cup {Obj([text |-> JsonText(x)]) : x \in InnerValues}
\* envelopes without the expected shape
OtherEnvelopes ==
    {Null, Num(7), EmptyObj,
     Obj([candidates |-> Arr(<<>>)]),
     Obj([candidates |-> Arr(<<Null>>)]),
     Obj([candidates |-> Arr(<<EmptyObj>>)]),
     Obj([candidates |-> Arr(<<Obj([content |-> EmptyObj])>>)]),
     Obj([candidates |-> Arr(<<Obj([content |-> Obj([parts |-> Arr(<<>>)])])>>)])}
OkBodies ==
    {Str("<html>")} \cup {JsonText(x) : x \in OtherEnvelopes}
    \cup {JsonText(Envelope(part)) : part \in Parts}
NotOkStatuses == {400, 404, 429, 500, 503}
\* the body the upstream sends with a status that is not ok
NotOkBody(status) == Str("upstream error body " \o ToString(status))
\* what one fetch can settle to
Settlements ==
    {Rejected} \cup {Response(200, b) : b \in OkBodies}
    \cup {Response(s, NotOkBody(s)) : s \in NotOkStatuses}

(* ---------------------------------------------------------------------- *)
(* State                                                                   *)
(* ---------------------------------------------------------------------- *)
\* the handler invocations the model follows
Requests == {"r1", "r2"}

VARIABLES
    server,     \* "starting", "listening" or "exited"
    apiKey,     \* process.env.GEMINI_API_KEY
    arrived,    \* number of requests received so far
    pc,         \* per invocation: "idle", "fetching", "sleeping", "done"
    req,        \* per invocation: [endpoint, body] of the request
    i,          \* per invocation: the loop counter
    delay,      \* per invocation: let delay
    calls,      \* per invocation: number of fetch calls issued
    sleeps,     \* per invocation: the delays passed to setTimeout, in order
    statuses,   \* per invocation: status of every settled fetch (0: rejected)
    settled,    \* per invocation: the latest settled fetch
    res         \* per invocation: the responses sent, in order

vars == <<server, apiKey, arrived, pc, req, i, delay, calls, sleeps, statuses,
          settled, res>>

NoRequest == [endpoint |-> "none", body |-> EmptyObj]
NoSettlement == [k |-> "none"]
StatusOf(s) == IF s.k = "response" THEN s.status ELSE 0

\* mutant: process.exit(1) when the key is unset
CheckEnvironmentVariablesExit(key) == IF Truthy(key) THEN "returned" ELSE "exited"
\* checkEnvironmentVariables(): logs, warns when the key is unset, returns
CheckEnvironmentVariables(key) == "returned"

Init ==
    /\ server = "starting"
    /\ apiKey \in Keys
    /\ arrived = 0
    /\ pc = [r \in Requests |-> "idle"]
    /\ req = [r \in Requests |-> NoRequest]
    /\ i = [r \in Requests |-> 0]
    /\ delay = [r \in Requests |-> 0]
    /\ calls = [r \in Requests |-> 0]
    /\ sleeps = [r \in Requests |-> <<>>]
    /\ statuses = [r \in Requests |-> <<>>]
    /\ settled = [r \in Requests |-> NoSettlement]
    /\ res = [r \in Requests |-> <<>>]

\* module load: checkEnvironmentVariables(), middleware, routes, app.listen
Start ==
    /\ server = "starting"
    /\ server' = IF CheckEnvironmentVariables(apiKey) = "returned"
                 THEN "listening" ELSE "exited"
    /\ UNCHANGED <<apiKey, arrived, pc, req, i, delay, calls, sleeps, statuses,
                   settled, res>>

\* mutant: GEMINI_API_KEY: process.env.GEMINI_API_KEY || '[NOT SET]'
TestEnvLeaky(key) ==
    Replied(Reply(200,
        Obj([environment |->
                Obj([NODE_ENV |-> Str("development"), PORT |-> Str("3000"),
                     DEBUG |-> Str("not set"), LOG_LEVEL |-> Str("info")]),
             apiKeys |->
                Obj([GEMINI_API_KEY |-> IF Truthy(key) THEN key ELSE Str("[NOT SET]")]),
             status |-> Str(IF Truthy(key) THEN "READY" ELSE "MISSING_API_KEY")])))
\* GET /api/test-env with NODE_ENV, PORT, DEBUG and LOG_LEVEL unset; the
\* timestamp and the server readings (uptime, memory, version, platform)
\* come from the clock and the process, not from the environment, and are
\* left out of the body
TestEnv(key) ==
    Replied(Reply(200,
        Obj([environment |->
                Obj([NODE_ENV |-> Str("development"), PORT |-> Str("3000"),
                     DEBUG |-> Str("not set"), LOG_LEVEL |-> Str("info")]),
             apiKeys |->
                Obj([GEMINI_API_KEY |-> Str(IF Truthy(key) THEN "[SET]" ELSE "[NOT SET]")]),
             status |-> Str(IF Truthy(key) THEN "READY" ELSE "MISSING_API_KEY")])))

\* the handler up to its first await, or to its early return
Validate(e, reqBody, key) ==
    LET v == CASE e = "get-macros" -> GetMacrosValidate(reqBody, key)
               [] e = "analyze-image" -> AnalyzeImageValidate(reqBody, key)
               [] OTHER -> TestEnv(key)
    IN  IF v.k = "throw" THEN OuterCatch ELSE v

\* a request arrives at a process whose GEMINI_API_KEY is key, and its
\* handler runs up to the first fetch; an
\* exception that leaves the async handler is an unhandled rejection, which
\* ends the process
ArriveWithKey(r, e, reqBody, key) ==
    /\ server = "listening"
    /\ pc[r] \in {"idle", "done"}
    /\ arrived < MaxRequests
    /\ arrived' = arrived + 1
    /\ server' = IF Validate(e, reqBody, key).k = "throw" THEN "exited" ELSE server
    /\ req' = [req EXCEPT ![r] = [endpoint |-> e, body |-> reqBody]]
    /\ sleeps' = [sleeps EXCEPT ![r] = <<>>]
    /\ statuses' = [statuses EXCEPT ![r] = <<>>]
    /\ settled' = [settled EXCEPT ![r] = NoSettlement]
    /\ i' = [i EXCEPT ![r] = 0]
    /\ LET v == Validate(e, reqBody, key)
       IN  IF v.k = "reply"
           THEN /\ res' = [res EXCEPT ![r] = <<v.reply>>]
                /\ pc' = [pc EXCEPT ![r] = "done"]
                /\ calls' = [calls EXCEPT ![r] = 0]
                /\ delay' = [delay EXCEPT ![r] = 0]
           ELSE IF v.k = "throw"
           THEN /\ res' = [res EXCEPT ![r] = <<>>]
                /\ pc' = [pc EXCEPT ![r] = "done"]
                /\ calls' = [calls EXCEPT ![r] = 0]
                /\ delay' = [delay EXCEPT ![r] = 0]
           ELSE /\ res' = [res EXCEPT ![r] = <<>>]
                /\ pc' = [pc EXCEPT ![r] = "fetching"]
                /\ calls' = [calls EXCEPT ![r] = 1]
                /\ delay' = [delay EXCEPT ![r] = InitialDelay]
    /\ UNCHANGED apiKey

Arrive(r, e, reqBody) == ArriveWithKey(r, e, reqBody, apiKey)
\* GET /api/test-env: the handler has no await
GetTestEnv(r) == Arrive(r, "test-env", EmptyObj)

\* the awaited fetch settles; the iteration runs to its return or to the
\* setTimeout of its catch block
Settle(r, s) ==
    /\ server = "listening"
    /\ pc[r] = "fetching"
    /\ statuses' = [statuses EXCEPT ![r] = Append(@, StatusOf(s))]
    /\ settled' = [settled EXCEPT ![r] = s]
    /\ LET e == req[r].endpoint
           t == TryBlock(e, s)
       IN  IF t.k = "reply"
           THEN /\ res' = [res EXCEPT ![r] = Append(@, t.reply)]
                /\ pc' = [pc EXCEPT ![r] = "done"]
                /\ UNCHANGED sleeps
           ELSE IF LastAttempt(e, i[r])
           THEN /\ res' = [res EXCEPT ![r] = Append(@, ErrorReply(500, ExhaustedMessage(e)))]
                /\ pc' = [pc EXCEPT ![r] = "done"]
                /\ UNCHANGED sleeps
           ELSE /\ sleeps' = [sleeps EXCEPT ![r] = Append(@, delay[r])]
                /\ pc' = [pc EXCEPT ![r] = "sleeping"]
                /\ UNCHANGED res
    /\ UNCHANGED <<server, apiKey, arrived, req, i, delay, calls>>

\* mutant: let delay declared once at module scope, shared by all invocations
TimerFiresSharedDelay(r) ==
    /\ server = "listening"
    /\ pc[r] = "sleeping"
    /\ delay' = [q \in Requests |-> NextDelay(delay[q])]
    /\ i' = [i EXCEPT ![r] = @ + 1]
    /\ IF i[r] + 1 < MaxRetries(req[r].endpoint)
       THEN /\ pc' = [pc EXCEPT ![r] = "fetching"]
            /\ calls' = [calls EXCEPT ![r] = @ + 1]
       ELSE /\ pc' = [pc EXCEPT ![r] = "done"]
            /\ UNCHANGED calls
    /\ UNCHANGED <<server, apiKey, arrived, req, sleeps, statuses, settled, res>>
\* the timer fires: delay *= 2, i++, and the next iteration's fetch; the
\* handler returns without a response if the loop condition fails
TimerFires(r) ==
    /\ server = "listening"
    /\ pc[r] = "sleeping"
    /\ delay' = [delay EXCEPT ![r] = NextDelay(@)]
    /\ i' = [i EXCEPT ![r] = @ + 1]
    /\ IF i[r] + 1 < MaxRetries(req[r].endpoint)
       THEN /\ pc' = [pc EXCEPT ![r] = "fetching"]
            /\ calls' = [calls EXCEPT ![r] = @ + 1]
       ELSE /\ pc' = [pc EXCEPT ![r] = "done"]
            /\ UNCHANGED calls
    /\ UNCHANGED <<server, apiKey, arrived, req, sleeps, statuses, settled, res>>

\* one connection at a time: the invocation "r1" alone
Next ==
    \/ Start
    \/ \E e \in Endpoints : \E b \in RequestBodies(e) : Arrive("r1", e, b)
    \/ GetTestEnv("r1")
    \/ \E s \in Settlements : Settle("r1", s)
    \/ TimerFires("r1")

Spec == Init /\ [][Next]_vars

(* ---------------------------------------------------------------------- *)
(* Concurrent requests                                                     *)
(* ---------------------------------------------------------------------- *)
\* Node runs the turns of several handler invocations interleaved: every
\* await hands the event loop to whichever promise or timer is ready next.
\* The concurrent specification follows both invocations against a smaller
\* upstream: a rejected fetch, a 500, a 404 and the two well-formed answers.
ConcKeys == {Undef, Str("key-A")}
ConcBodies(e) == {EmptyObj, Obj([n \in {InputField(e)} |-> ValidInput(e)])}
ConcSettlements ==
    {Rejected, Response(500, NotOkBody(500)), Response(404, NotOkBody(404)),
     Response(200, JsonText(Envelope(Obj([text |-> JsonText(GoodMacros)])))),
     Response(200, JsonText(Envelope(Obj([text |-> JsonText(GoodAnalysis)]))))}

InitConc == Init /\ apiKey \in ConcKeys

ArriveConc(r) ==
    \/ \E e \in Endpoints : \E b \in ConcBodies(e) : Arrive(r, e, b)
    \/ GetTestEnv(r)
SettleConc(r) == \E s \in ConcSettlements : Settle(r, s)

NextConc ==
    \/ Start
    \/ \E r \in Requests : ArriveConc(r)
    \/ \E r \in Requests : SettleConc(r)
    \/ \E r \in Requests : TimerFires(r)

\* every outbound call settles and every timer fires
Fairness ==
    \A r \in Requests : WF_vars(SettleConc(r)) /\ WF_vars(TimerFires(r))

SpecConc == InitConc /\ [][NextConc]_vars /\ Fairness

(* ---------------------------------------------------------------------- *)
(* Two runs with different credentials                                     *)
(* ---------------------------------------------------------------------- *)
\* Two processes receive the same request and see the same upstream
\* outcomes; they differ only in the value of GEMINI_API_KEY.  "r1" is the
\* invocation of the first process (key apiKey), "r2" the invocation of
\* the second (key OtherKey(apiKey)).  The runs advance in lockstep: the
\* first takes a turn, the second takes the same turn with the same input.
OtherKey(key) ==
    CASE key = Str("key-A") -> Str("key-B")
      [] key = Str("key-B") -> Str("key-A")
      [] key = Undef -> Str("")
      [] OTHER -> Undef
KeyOf(r) == IF r = "r1" THEN apiKey ELSE OtherKey(apiKey)

\* the number of turns an invocation has taken
Turns(r) == (IF pc[r] = "idle" THEN 0 ELSE 1) + Len(statuses[r]) + i[r]
SameTurn == Turns("r1") = Turns("r2")

FirstArrives ==
    /\ pc["r1"] = "idle" /\ pc["r2"] = "idle"
    /\ \/ \E e \in Endpoints : \E b \in RequestBodies(e) : Arrive("r1", e, b)
       \/ GetTestEnv("r1")
FirstSettles == SameTurn /\ \E s \in Settlements : Settle("r1", s)
FirstTimerFires == SameTurn /\ TimerFires("r1")
SecondArrives ==
    /\ pc["r1"] # "idle" /\ pc["r2"] = "idle"
    /\ ArriveWithKey("r2", req["r1"].endpoint, req["r1"].body, KeyOf("r2"))
SecondSettles ==
    /\ Turns("r2") < Turns("r1")
    /\ settled["r1"].k # "none"
    /\ Settle("r2", settled["r1"])
SecondTimerFires == Turns("r2") < Turns("r1") /\ TimerFires("r2")

NextTwin ==
    \/ Start
    \/ FirstArrives
    \/ FirstSettles
    \/ FirstTimerFires
    \/ SecondArrives
    \/ SecondSettles
    \/ SecondTimerFires

SpecTwin == Init /\ [][NextTwin]_vars

TypeOK ==
    /\ server \in {"starting", "listening", "exited"}
    /\ arrived \in 0..MaxRequests
    /\ \A r \in Requests : pc[r] \in {"idle", "fetching", "sleeping", "done"}

(* ---------------------------------------------------------------------- *)
(* Shared vocabulary of the properties                                     *)
(* ---------------------------------------------------------------------- *)
Done(r) == pc[r] = "done"
IsText(r) == req[r].endpoint = "get-macros"
IsImage(r) == req[r].endpoint = "analyze-image"
AllStatuses(r, code) == \A n \in 1..Len(statuses[r]) : statuses[r][n] = code
\* the request ended at the attempt whose settlement is the latest one:
\* one response, no call and no sleep after that attempt
EndedAtThisAttempt(r) ==
    /\ Done(r)
    /\ Len(res[r]) = 1
    /\ calls[r] = Len(statuses[r])
    /\ Len(sleeps[r]) = Len(statuses[r]) - 1
\* a 2xx answer whose envelope has the expected shape around the text x
ShapedAnswer(x) == Response(200, JsonText(Envelope(Obj([text |-> x]))))
ObjectValues == {x \in InnerValues : x.t = "object"}
ExhaustedReply(r) ==
    IF IsText(r) THEN ErrorReply(500, "Failed to get macro data from AI")
    ELSE ErrorReply(500, "Failed to analyze image")

(* ---------------------------------------------------------------------- *)
(* C1                                                                      *)
(* ---------------------------------------------------------------------- *)
\* C1: a text query whose first four attempts are answered 500 is still
\* running after each of them, and when the fifth is answered 200 with a
\* well-formed payload it ends in HTTP 200 after exactly 5 calls, having
\* slept 1000, 2000, 4000 and 8000 ms in that order.
C1_FiveAttempts ==
    \A r \in Requests :
        (IsText(r) /\ Len(statuses[r]) >= 1 /\ Len(statuses[r]) <= 5
         /\ \A n \in 1..Len(statuses[r]) : n <= 4 => statuses[r][n] = 500)
        => /\ Len(statuses[r]) <= 4 => ~Done(r)
           /\ (Len(statuses[r]) = 5
               /\ settled[r] \in {ShapedAnswer(JsonText(x)) : x \in ObjectValues})
              => /\ Done(r)
                 /\ Len(res[r]) = 1
                 /\ res[r][1].status = 200
                 /\ calls[r] = 5
                 /\ sleeps[r] = <<1000, 2000, 4000, 8000>>

C1_Witness ==
    \E r \in Requests :
        /\ IsText(r) /\ Done(r)
        /\ statuses[r] = <<500, 500, 500, 500, 200>>
        /\ settled[r] = ShapedAnswer(JsonText(GoodMacros))
        /\ res[r] = <<Reply(200, GoodMacros)>>
        /\ calls[r] = 5

(* ---------------------------------------------------------------------- *)
(* C2                                                                      *)
(* ---------------------------------------------------------------------- *)
ClaimedAttempts(r) == IF IsText(r) THEN 5 ELSE 3

\* C2: while every attempt is answered 429 the request makes no more than 5
\* (text) or 3 (image) calls, it ends exactly when that many attempts have
\* been answered, and it ends with the retries-exhausted reply (HTTP 500).
C2_Exhausted ==
    \A r \in Requests :
        (Len(statuses[r]) >= 1 /\ AllStatuses(r, 429))
        => /\ calls[r] <= ClaimedAttempts(r)
           /\ Done(r) <=> Len(statuses[r]) = ClaimedAttempts(r)
           /\ Done(r) => /\ calls[r] = ClaimedAttempts(r)
                         /\ res[r] = <<ExhaustedReply(r)>>

C2_Witness ==
    \E r \in Requests :
        /\ IsImage(r) /\ Done(r)
        /\ statuses[r] = <<429, 429, 429>>
        /\ calls[r] = 3
        /\ res[r][1].status = 500

(* ---------------------------------------------------------------------- *)
(* C3                                                                      *)
(* ---------------------------------------------------------------------- *)
\* a status that is not 2xx, not 429 and not >= 500
TerminalStatus(code) == ~(code >= 200 /\ code <= 299) /\ code # 429 /\ code < 500
TerminalAnswer(s) == s.k = "response" /\ TerminalStatus(s.status)

\* C3: on either endpoint, an attempt answered with a non-2xx status other
\* than 429 and below 500 ends the request at that attempt with that status:
\* no further call, no sleep after it (a 404 first answer: exactly 1 call).
C3_TerminalStatus ==
    \A r \in Requests :
        TerminalAnswer(settled[r])
        => /\ EndedAtThisAttempt(r)
           /\ res[r][1].status = settled[r].status

C3_Witness ==
    \E r \in Requests :
        /\ Done(r)
        /\ statuses[r] = <<404>>
        /\ calls[r] = 1
        /\ sleeps[r] = <<>>
        /\ res[r][1].status = 404

(* ---------------------------------------------------------------------- *)
(* C4                                                                      *)
(* ---------------------------------------------------------------------- *)
MalformedReply == ErrorReply(500, "AI returned an invalid response")

\* C4: on either endpoint, a 2xx answer with a well-shaped envelope whose
\* inner text is not valid JSON ends the request at that attempt with the
\* malformed-response failure: no further call, no sleep, and not the
\* retries-exhausted failure.
C4_InnerTextNotJson ==
    \A r \in Requests :
        settled[r] = ShapedAnswer(Str("not json"))
        => /\ EndedAtThisAttempt(r)
           /\ res[r] = <<MalformedReply>>

(* ---------------------------------------------------------------------- *)
(* C5                                                                      *)
(* ---------------------------------------------------------------------- *)
\* C5: on either endpoint, a 2xx answer whose envelope lacks the expected
\* shape (not an object, candidates missing or empty, first candidate null
\* or without content, parts missing or empty) ends the request at that
\* attempt with the malformed-response failure (HTTP 500), without a
\* further call.
C5_EnvelopeShape ==
    \A r \in Requests :
        settled[r] \in {Response(200, JsonText(x)) : x \in OtherEnvelopes}
        => /\ EndedAtThisAttempt(r)
           /\ res[r] = <<MalformedReply>>

(* ---------------------------------------------------------------------- *)
(* C6                                                                      *)
(* ---------------------------------------------------------------------- *)
\* the JSON value a response carries
Payload(reply) == reply.body.v
NonNegativeNumber(x) == x.t = "number" /\ x.v >= 0

\* C6: every HTTP 200 response of /api/get-macros carries calories,
\* protein, carbs and fat, each a number >= 0, whatever the inner JSON held.
C6_NonNegativeFields ==
    \A r \in Requests :
        (IsText(r) /\ Done(r) /\ Len(res[r]) >= 1 /\ res[r][1].status = 200)
        => /\ Payload(res[r][1]).t = "object"
           /\ \A f \in MacroFields :
                /\ f \in DOMAIN Payload(res[r][1]).v
                /\ NonNegativeNumber(Payload(res[r][1]).v[f])

(* ---------------------------------------------------------------------- *)
(* C7                                                                      *)
(* ---------------------------------------------------------------------- *)
Received(r) == pc[r] # "idle"
InputOf(r) == GetProp(req[r].body, IF IsText(r) THEN "query" ELSE "image")
MissingOrEmpty(r) == (IsText(r) \/ IsImage(r)) /\ InputOf(r) \in {Undef, Null, Str("")}
KeyConfigured == apiKey \notin {Undef, Str("")}

\* C7: a request whose query (text) or image (image) is missing or empty is
\* answered 400 with an error body ({error: "Query is required"} for the
\* text endpoint) and makes no outbound call, with or without a credential.
C7_MissingInput ==
    \A r \in Requests :
        (Received(r) /\ MissingOrEmpty(r))
        => /\ Done(r)
           /\ calls[r] = 0
           /\ statuses[r] = <<>>
           /\ Len(res[r]) = 1
           /\ res[r][1].status = 400
           /\ IsText(r) => res[r] = <<ErrorReply(400, "Query is required")>>
           /\ IsImage(r) => res[r] = <<ErrorReply(400, "Image is required")>>

C7_Witness ==
    \E r \in Requests :
        /\ ~KeyConfigured
        /\ IsText(r) /\ Done(r)
        /\ req[r].body = EmptyObj
        /\ res[r] = <<ErrorReply(400, "Query is required")>>
        /\ calls[r] = 0

(* ---------------------------------------------------------------------- *)
(* C8                                                                      *)
(* ---------------------------------------------------------------------- *)
HasValidInput(r) == InputOf(r).t = "string" /\ InputOf(r).v # ""

\* C8: without a credential the process does not exit, at startup or on a
\* request, and every request with a valid input is answered 500 without
\* any outbound call.
C8_NoCredential ==
    ~KeyConfigured
    => /\ server # "exited"
       /\ \A r \in Requests :
            (Received(r) /\ HasValidInput(r))
            => /\ Done(r)
               /\ calls[r] = 0
               /\ res[r] = <<ErrorReply(500, "API key not configured")>>

\* a second request, received after the first was answered, is answered too
C8_Witness ==
    \E r \in Requests :
        /\ apiKey = Undef
        /\ server = "listening"
        /\ arrived = 2
        /\ Done(r) /\ HasValidInput(r)
        /\ res[r] = <<ErrorReply(500, "API key not configured")>>

(* ---------------------------------------------------------------------- *)
(* C9                                                                      *)
(* ---------------------------------------------------------------------- *)
\* the reply is the text, or a JSON object with a property holding the text
Carries(reply, text) ==
    \/ reply.body = text
    \/ /\ reply.body.t = "jsontext"
       /\ Payload(reply).t = "object"
       /\ \E n \in DOMAIN Payload(reply).v : Payload(reply).v[n] = text

\* C9: when the upstream rejects with a 4xx other than 429, the response
\* carries that status and the upstream response body verbatim.
C9_StatusAndBody ==
    \A r \in Requests :
        (Done(r) /\ Len(res[r]) = 1 /\ settled[r].k = "response"
         /\ settled[r].status \in 400..499 /\ settled[r].status # 429)
        => /\ res[r][1].status = settled[r].status
           /\ Carries(res[r][1], settled[r].body)

(* ---------------------------------------------------------------------- *)
(* C10                                                                     *)
(* ---------------------------------------------------------------------- *)
\* a JSON object with a non-empty error string
ErrorObject(reply) ==
    /\ reply.body.t = "jsontext"
    /\ Payload(reply).t = "object"
    /\ "error" \in DOMAIN Payload(reply).v
    /\ Payload(reply).v["error"].t = "string"
    /\ Payload(reply).v["error"].v # ""

\* C10: every handler that has returned has sent exactly one response; a
\* response that is not 200 is a JSON object with an error string and its
\* status is 400 for a missing input (no call made), 500, or the terminal
\* status the upstream answered last; and the process is still listening.
C10_ErrorSurface ==
    \A r \in Requests :
        Done(r)
        => /\ server = "listening"
           /\ Len(res[r]) = 1
           /\ res[r][1].status # 200
              => /\ ErrorObject(res[r][1])
                 /\ \/ res[r][1].status = 400 /\ calls[r] = 0 /\ ~Truthy(InputOf(r))
                    \/ res[r][1].status = 500
                    \/ /\ TerminalAnswer(settled[r])
                       /\ res[r][1].status = settled[r].status

\* a failed request (retries exhausted) was answered, and so was the next
C10_Witness ==
    \E r \in Requests :
        /\ arrived = 2
        /\ Done(r) /\ IsText(r)
        /\ Len(statuses[r]) = 5
        /\ settled[r] = Rejected
        /\ res[r] = <<ExhaustedReply(r)>>

(* ---------------------------------------------------------------------- *)
(* C11                                                                     *)
(* ---------------------------------------------------------------------- *)
\* C11: when every outbound call settles and every backoff timer fires, a
\* request that was received eventually has its handler returned with
\* exactly one response sent; at no time has it been sent two.
C11_ExactlyOneResponse ==
    \A r \in Requests :
        /\ [](Len(res[r]) <= 1)
        /\ Received(r) ~> (Done(r) /\ Len(res[r]) = 1)

\* a request that used its whole budget was answered once, while the other
\* invocation is still waiting for its upstream call
C11_Witness ==
    /\ Done("r2") /\ IsText("r2")
    /\ calls["r2"] = 5
    /\ Len(sleeps["r2"]) = 4
    /\ Len(res["r2"]) = 1
    /\ pc["r1"] = "fetching"

(* ---------------------------------------------------------------------- *)
(* C12                                                                     *)
(* ---------------------------------------------------------------------- *)
\* the delays a request sleeps before its attempts 2 .. n+1 when it runs alone
Backoff(n) == [k \in 1..n |-> 1000 * 2^(k - 1)]
\* the response of a request that runs alone, after its last answer
AloneReply(r) ==
    IF TryBlock(req[r].endpoint, settled[r]).k = "reply"
    THEN TryBlock(req[r].endpoint, settled[r]).reply
    ELSE ExhaustedReply(r)
\* what one invocation keeps between its turns
Locals(r) == <<pc[r], req[r], i[r], delay[r], calls[r], sleeps[r], statuses[r],
               settled[r], res[r]>>
OwnTurn(r) == ArriveConc(r) \/ SettleConc(r) \/ TimerFires(r)
InLoop(r) == Received(r) /\ calls[r] > 0

\* C12: under any interleaving of the two invocations, a request's calls,
\* delays and response are those of a run alone against the answers it
\* received (one call per answer, delays 1000, 2000, 4000, ..., the reply
\* decided by its own last answer), and a turn of one invocation leaves
\* the counter, the delay and every other local of the other unchanged.
C12_Isolation ==
    /\ [](\A r \in Requests :
            InLoop(r)
            => /\ i[r] = Len(sleeps[r]) - (IF pc[r] = "sleeping" THEN 1 ELSE 0)
               /\ delay[r] = 1000 * 2^i[r]
               /\ sleeps[r] = Backoff(Len(sleeps[r]))
               /\ Done(r) => /\ calls[r] = Len(statuses[r])
                             /\ Len(sleeps[r]) = calls[r] - 1
                             /\ res[r] = <<AloneReply(r)>>)
    /\ [][\A r \in Requests : OwnTurn(r) \/ UNCHANGED Locals(r)]_vars

\* both invocations are inside their retry loops, at different attempts
C12_Witness ==
    /\ pc["r1"] = "sleeping" /\ i["r1"] = 2 /\ delay["r1"] = 4000
    /\ pc["r2"] = "fetching" /\ i["r2"] = 1 /\ delay["r2"] = 2000
    /\ IsText("r1") /\ IsImage("r2")

(* ---------------------------------------------------------------------- *)
(* C13                                                                     *)
(* ---------------------------------------------------------------------- *)
\* an object with a string name and calories, protein, carbs and fat all
\* numbers >= 0
WellFormedMacros(x) ==
    /\ x.t = "object"
    /\ "name" \in DOMAIN x.v /\ x.v["name"].t = "string"
    /\ \A f \in MacroFields : f \in DOMAIN x.v /\ NonNegativeNumber(x.v[f])

\* C13: when the inner JSON of the final answer is a well-formed macro
\* object, /api/get-macros responds 200 with exactly that object; and the
\* payload of every 200 response of that endpoint is left unchanged by a
\* second coercion.
C13_CoercionIdentity ==
    \A r \in Requests :
        (IsText(r) /\ Done(r) /\ Len(res[r]) = 1 /\ res[r][1].status = 200)
        => /\ \A x \in InnerValues :
                (WellFormedMacros(x) /\ settled[r] = ShapedAnswer(JsonText(x)))
                => res[r][1] = [status |-> 200, body |-> JsonText(x)]
           /\ CoerceMacros(Payload(res[r][1])) = Payload(res[r][1])

\* the example of the specification, and an object holding a zero
C13_Witness ==
    \E r \in Requests :
        /\ IsText(r) /\ Done(r)
        /\ settled[r] = ShapedAnswer(JsonText(With(GoodMacros, "fat", Num(0))))
        /\ res[r] = <<[status |-> 200,
                       body |-> JsonText(With(GoodMacros, "fat", Num(0)))]>>

(* ---------------------------------------------------------------------- *)
(* C14                                                                     *)
(* ---------------------------------------------------------------------- *)
\* C14: every HTTP 200 response of /api/analyze-image is an object with a
\* string foodName and a string suggestedQuantity.
C14_ImageResultShape ==
    \A r \in Requests :
        (IsImage(r) /\ Done(r) /\ Len(res[r]) >= 1 /\ res[r][1].status = 200)
        => /\ Payload(res[r][1]).t = "object"
           /\ \A f \in {"foodName", "suggestedQuantity"} :
                /\ f \in DOMAIN Payload(res[r][1]).v
                /\ Payload(res[r][1]).v[f].t = "string"

(* ---------------------------------------------------------------------- *)
(* C15                                                                     *)
(* ---------------------------------------------------------------------- *)
\* the strings a JSON value holds: property names and string values
RECURSIVE Strings(_)
Strings(x) ==
    CASE x.t = "string" -> {x.v}
      [] x.t = "jsontext" -> Strings(x.v)
      [] x.t = "object" -> DOMAIN x.v \cup UNION {Strings(x.v[n]) : n \in DOMAIN x.v}
      [] x.t = "array" -> UNION {Strings(x.v[j]) : j \in 1..Len(x.v)}
      [] OTHER -> {}
IsTestEnv(r) == req[r].endpoint = "test-env"

\* C15: in two runs that differ only in the value of the key, fed the same
\* request and the same upstream outcomes, no response of any endpoint
\* holds the run's key; after the same number of turns the two runs have
\* made the same calls, slept the same delays and sent the same responses;
\* and /api/test-env answers '[SET]' / 'READY' or '[NOT SET]' /
\* 'MISSING_API_KEY' by whether the key is set.
C15_KeyStaysOnServer ==
    /\ \A r \in Requests : \A k \in 1..Len(res[r]) :
            Truthy(KeyOf(r)) => KeyOf(r).v \notin Strings(res[r][k].body)
    /\ SameTurn
       => /\ pc["r1"] = pc["r2"]
          /\ calls["r1"] = calls["r2"]
          /\ sleeps["r1"] = sleeps["r2"]
          /\ res["r1"] = res["r2"]
    /\ \A r \in Requests :
            (IsTestEnv(r) /\ Done(r))
            => /\ Len(res[r]) = 1
               /\ res[r][1].status = 200
               /\ GetProp(GetProp(Payload(res[r][1]), "apiKeys"), "GEMINI_API_KEY")
                    = Str(IF Truthy(KeyOf(r)) THEN "[SET]" ELSE "[NOT SET]")
               /\ GetProp(Payload(res[r][1]), "status")
                    = Str(IF Truthy(KeyOf(r)) THEN "READY" ELSE "MISSING_API_KEY")

\* both runs answered the same text query after one retry, under two keys
C15_Witness ==
    /\ apiKey = Str("key-A") /\ KeyOf("r2") = Str("key-B")
    /\ IsText("r1") /\ IsText("r2")
    /\ Done("r1") /\ Done("r2")
    /\ statuses["r1"] = <<503, 200>> /\ statuses["r2"] = <<503, 200>>
    /\ res["r1"] = <<Reply(200, GoodMacros)>>
    /\ res["r2"] = <<Reply(200, GoodMacros)>>

(* ---------------------------------------------------------------------- *)
(* C16                                                                     *)
(* ---------------------------------------------------------------------- *)
\* a rejected fetch, or an answer with a status >= 500
TransportOr5xx(s) == s.k = "rejected" \/ (s.k = "response" /\ s.status >= 500)

\* C16: after an attempt that ended in a transport failure or in a 5xx
\* status, the calls made, the delays slept and the response depend only on
\* how many attempts were answered, not on which of the two it was: below
\* the budget the request sleeps and calls again, at the budget it ends
\* with the retries-exhausted reply.
C16_TransportLike5xx ==
    \A r \in Requests :
        TransportOr5xx(settled[r])
        => IF Len(statuses[r]) < ClaimedAttempts(r)
           THEN /\ pc[r] \in {"sleeping", "fetching"}
                /\ res[r] = <<>>
                /\ sleeps[r] = Backoff(Len(statuses[r]))
                /\ calls[r] = Len(statuses[r]) + (IF pc[r] = "fetching" THEN 1 ELSE 0)
           ELSE /\ Done(r)
                /\ res[r] = <<ExhaustedReply(r)>>
                /\ sleeps[r] = Backoff(ClaimedAttempts(r) - 1)
                /\ calls[r] = ClaimedAttempts(r)

\* transport failures and 5xx answers mixed in one request
C16_Witness ==
    \E r \in Requests :
        /\ IsImage(r) /\ Done(r)
        /\ statuses[r] = <<0, 503, 0>>
        /\ sleeps[r] = <<1000, 2000>>
        /\ res[r] = <<ExhaustedReply(r)>>

(* ---------------------------------------------------------------------- *)
(* C17                                                                     *)
(* ---------------------------------------------------------------------- *)
\* C17: a request never makes more than 5 (text) or 3 (image) calls; every
\* answer that is retried consumes exactly one attempt (the counter is the
\* number of answers retried so far); and the k-th sleep is 1000 * 2^(k-1).
C17_BoundedBackoff ==
    \A r \in Requests :
        InLoop(r)
        => /\ calls[r] <= ClaimedAttempts(r)
           /\ calls[r] = i[r] + 1
           /\ i[r] = Len(statuses[r]) - (IF pc[r] = "fetching" THEN 0 ELSE 1)
           /\ Len(sleeps[r]) = i[r] + (IF pc[r] = "sleeping" THEN 1 ELSE 0)
           /\ \A k \in 1..Len(sleeps[r]) : sleeps[r][k] = 1000 * 2^(k - 1)

C17_Witness ==
    \E r \in Requests :
        /\ IsText(r) /\ pc[r] = "fetching"
        /\ statuses[r] = <<429, 503, 429, 500>>
        /\ sleeps[r] = <<1000, 2000, 4000, 8000>>
        /\ calls[r] = 5

(* ---------------------------------------------------------------------- *)
(* C18                                                                     *)
(* ---------------------------------------------------------------------- *)
RECURSIVE Sum(_)
Sum(seq) == IF seq = <<>> THEN 0 ELSE seq[1] + Sum(Tail(seq))
ClaimedTotalSleep(r) == IF IsText(r) THEN 15000 ELSE 3000

\* C18: a sleep is only started when another call follows it, so a request
\* never sleeps more than N-1 times; a request that ends with the
\* retries-exhausted reply has made N calls and slept exactly N-1 times,
\* 15000 ms in total (text) or 3000 ms (image).
C18_NoSleepAfterLastAttempt ==
    \A r \in Requests :
        InLoop(r)
        => /\ Len(sleeps[r]) <= ClaimedAttempts(r) - 1
           /\ pc[r] = "sleeping" => calls[r] < ClaimedAttempts(r)
           /\ Done(r) => Len(sleeps[r]) = calls[r] - 1
           /\ (Done(r) /\ res[r] = <<ExhaustedReply(r)>>)
              => /\ calls[r] = ClaimedAttempts(r)
                 /\ Len(sleeps[r]) = ClaimedAttempts(r) - 1
                 /\ Sum(sleeps[r]) = ClaimedTotalSleep(r)

C18_Witness ==
    \E r \in Requests :
        /\ IsText(r) /\ Done(r)
        /\ res[r] = <<ExhaustedReply(r)>>
        /\ Len(sleeps[r]) = 4
        /\ Sum(sleeps[r]) = 15000

====
